---- MODULE Spec2Model ----
(***************************************************************************)
(* Model of the command execution core of the Unity MCP server:            *)
(* UnityManager.execute_unity_command and UnityManager.cleanup             *)
(* (src/UnityMCP/unity_manager.py) together with                           *)
(* MCPConfig.validate_unity_project_path (src/config.py).                  *)
(*                                                                         *)
(* Every invocation of execute_unity_command is an asyncio task.  A task   *)
(* runs without interruption between two awaits, so one action of the      *)
(* model is the code between two suspension points:                        *)
(*   Call              line 190 up to `await create_subprocess_exec`       *)
(*   SpawnOk/SpawnFail the result of that await, up to `await wait_for`    *)
(*   CommunicateReturn the result of communicate(), lines 239-259          *)
(*   TimeoutFire       wait_for raising asyncio.TimeoutError               *)
(*   Cancel            the task being cancelled while suspended            *)
(* ProcExit and Tick are steps of the environment (the editor process      *)
(* exiting, the wall clock advancing).                                     *)
(***************************************************************************)
EXTENDS Integers, Sequences, FiniteSets, TLC

\* ---------------------------------------------------------------- bounds
MaxCalls == 2
MaxClock == 1

Calls == 1..MaxCalls

\* ---------------------------------------------------------------- inputs
Actions == {"project.scan"}

\* The file system the calls see: one path of every shape the validation
\* distinguishes.
Paths == {"/missing", "/file", "/only_assets", "/only_settings", "/project"}

Exists(p) == p # "/missing"
IsDir(p) == p \in {"/only_assets", "/only_settings", "/project"}
HasAssets(p) == p \in {"/only_assets", "/project"}
HasProjectSettings(p) == p \in {"/only_settings", "/project"}

Timeouts == {300}

Stdouts == {"not json", "null", "{\"count\": 3}",
            "{\"Success\": true, \"Data\": {\"count\": 3}}",
            "{\"Success\": false, \"Error\": \"boom\"}",
            "\\xff"}

Stderrs == {"NullReferenceException", "\\xff"}

LaunchErrors == {"FileNotFoundError"}

\* The signals cleanup delivers: Popen.terminate() and Popen.kill().
SIGTERM == "SIGTERM"
SIGKILL == "SIGKILL"

\* ---------------------------------------------------------------- values
None == [t |-> "None"]

PyInt(n) == [t |-> "int", n |-> n]
PyBool(b) == [t |-> "bool", b |-> b]
\* datetime.now() at clock reading t
DateTime(t) == [t |-> "datetime", timestamp |-> t]
PyStr(s) == [t |-> "str", s |-> s]
PyDict(keys, vals) == [t |-> "dict", keys |-> keys, vals |-> vals]
PyList(items) == [t |-> "list", items |-> items]
\* A formatted string, f"...{x}...": the literal pieces and the interpolated
\* values in order.
FString(parts) == [t |-> "str", parts |-> parts]

\* bytes.decode(): UTF-8 decoding of the captured stream.
BytesDecode(b) ==
    IF b = "\\xff"
    THEN [ok |-> FALSE, exc |-> "UnicodeDecodeError",
          msg |-> FString(<<"'utf-8' codec can't decode byte 0xff">>)]
    ELSE [ok |-> TRUE, text |-> b]

\* json.loads on the texts the model's subprocess writes.
json_loads(s) ==
    CASE s = "null" -> [ok |-> TRUE, value |-> None]
      [] s = "{\"count\": 3}" ->
            [ok |-> TRUE, value |-> PyDict(<<"count">>, <<PyInt(3)>>)]
      [] s = "{\"Success\": true, \"Data\": {\"count\": 3}}" ->
            [ok |-> TRUE,
             value |-> PyDict(<<"Success", "Data">>,
                              <<PyBool(TRUE), PyDict(<<"count">>, <<PyInt(3)>>)>>)]
      [] s = "{\"Success\": false, \"Error\": \"boom\"}" ->
            [ok |-> TRUE,
             value |-> PyDict(<<"Success", "Error">>, <<PyBool(FALSE), PyStr("boom")>>)]
      [] OTHER -> [ok |-> FALSE, exc |-> "JSONDecodeError",
                   msg |-> FString(<<"Expecting value: line 1 column 1 (char 0)">>)]

\* json.dumps with the default separators.
RECURSIVE json_dumps(_), DumpItems(_), DumpEntries(_, _)
json_dumps(v) ==
    CASE v.t = "None" -> "null"
      [] v.t = "bool" -> IF v.b THEN "true" ELSE "false"
      [] v.t = "int" -> ToString(v.n)
      [] v.t = "str" -> "\"" \o v.s \o "\""
      [] v.t = "list" -> "[" \o DumpItems(v.items) \o "]"
      [] v.t = "dict" -> "{" \o DumpEntries(v.keys, v.vals) \o "}"

DumpItems(items) ==
    IF items = <<>> THEN ""
    ELSE json_dumps(Head(items))
         \o (IF Len(items) = 1 THEN "" ELSE ", " \o DumpItems(Tail(items)))

DumpEntries(keys, vals) ==
    IF keys = <<>> THEN ""
    ELSE "\"" \o Head(keys) \o "\": " \o json_dumps(Head(vals))
         \o (IF Len(keys) = 1 THEN "" ELSE ", " \o DumpEntries(Tail(keys), Tail(vals)))

\* The parameters the project_scan tool passes with its defaults.
Parameters ==
    {PyDict(<<"patterns", "includeAssets", "maxDepth">>,
            <<PyList(<<PyStr("**/*.cs"), PyStr("**/*.prefab")>>),
              PyBool(TRUE), PyInt(10)>>)}

\* ---------------------------------------------------------------- config
\* Mutant: the ProjectSettings check is forgotten.
validate_unity_project_path_no_settings(p) ==
    Exists(p) /\ IsDir(p) /\ HasAssets(p)

validate_unity_project_path(p) ==
    Exists(p) /\ IsDir(p) /\ HasAssets(p) /\ HasProjectSettings(p)

\* ---------------------------------------------------------------- state
VARIABLES
    active_operations,  \* self.active_operations: operation id -> the call whose record it holds
    unity_processes,    \* self.unity_processes: process id -> the call whose process it holds
    bridge_script,      \* the file at self.bridge_script_path exists
    editor_path,        \* config.get_unity_editor_path() finds an editor binary
    now,                \* the reading of datetime.now()
    pc,                 \* where each call of execute_unity_command is
    args,               \* the arguments of each call
    operation,          \* the UnityOperation object each call created
    process,            \* the subprocess each call created
    exchange,           \* returncode, stdout and stderr each call got from communicate()
    outcome,            \* what each call returned or raised
    log,                \* history: the attribute assignments made to each record
    spawns,             \* history: the subprocesses each call created
    stdin,              \* history: what each call handed to communicate() for stdin
    signals,            \* history: the signals cleanup sent to each process
    cleanup             \* where the cleanup coroutine is; history: the handles
                        \* it was given and those whose termination raised

vars == <<active_operations, unity_processes, bridge_script, editor_path, now,
          pc, args, operation, process, exchange, outcome, log, spawns,
          stdin, signals, cleanup>>

\* ---------------------------------------------------------------- records
NoArgs == [action |-> "", project_path |-> "", parameters |-> None, timeout |-> 0]

\* f"{action}_{datetime.now().timestamp()}"
OperationId(action, t) == [action |-> action, timestamp |-> t]

\* UnityOperation(id=..., command=..., project_path=..., start_time=...)
UnityOperation(id, command, project_path, start_time) ==
    [id |-> id, command |-> command, project_path |-> project_path,
     status |-> "pending", start_time |-> DateTime(start_time), end_time |-> None,
     result |-> None, error |-> None]

\* A subprocess: not created, running, exited by itself, or ended by a signal.
NoProcess == [state |-> "none"]
Running == [state |-> "running"]
Exited == [state |-> "exited"]
Signalled == [state |-> "signalled"]

\* What communicate() hands back: process.returncode and the two captured
\* streams.
Exchange(rc, out, err) == [returncode |-> rc, stdout |-> out, stderr |-> err]
NoExchange == [returncode |-> None]

NoOutcome == [kind |-> "none"]
Returned(v) == [kind |-> "returned", value |-> v]
Raised(exc, msg) == [kind |-> "raised", exc |-> exc, msg |-> msg]

\* The cleanup coroutine is not running and has not run.
NotCleaning ==
    [at |-> "idle", k |-> 0, tracked |-> {}, errors |-> {}, raised |-> FALSE]

\* The texts of the errors, str(e).
InvalidPathMsg(p) == FString(<<"Invalid Unity project path: ", p>>)
UnsupportedPlatformMsg == FString(<<"Unsupported platform: ">>)
LaunchMsg(exc) == FString(<<"[Errno] ", exc>>)
ParseMsg(e) == FString(<<"Failed to parse Unity output: ">> \o e.parts)
ProcessFailedMsg(rc, err) ==
    FString(<<"Unity process failed with code ", ToString(rc), ": ", err>>)
TimeoutMsg(t) ==
    FString(<<"Unity command timed out after ", ToString(t), " seconds">>)

\* CancelledError derives from BaseException, everything else raised here
\* from Exception.
IsException(exc) == exc # "CancelledError"

\* ---------------------------------------------------------------- frames
\* A frame is the part of a call's state that the code between two awaits
\* works on: the record, the history of the assignments to it, and the value
\* returned or the exception in flight.
Frame(op, lg, out) == [op |-> op, log |-> lg, out |-> out]

SetStatus(f, s) ==
    [f EXCEPT !.op.status = s, !.log = Append(@, "status=" \o s)]
SetResult(f, r) == [f EXCEPT !.op.result = r, !.log = Append(@, "result")]
SetError(f, e) == [f EXCEPT !.op.error = e, !.log = Append(@, "error")]
SetEndTime(f, t) == [f EXCEPT !.op.end_time = DateTime(t), !.log = Append(@, "end_time")]

Raise(f, exc, msg) == [f EXCEPT !.out = Raised(exc, msg)]

\* Mutant: the success branch falls through without returning the result.
Return_nothing(f, v) == [f EXCEPT !.out = Returned(None)]

Return(f, v) == [f EXCEPT !.out = Returned(v)]

\* ------------------------------------------- execute_unity_command, parts
\* Lines 240-259: the exit code is examined and stdout decoded.
ParseResult(f, proc, t) ==
    IF proc.returncode = 0
    THEN LET text == BytesDecode(proc.stdout) IN
         IF ~text.ok
         THEN Raise(f, text.exc, text.msg)
         ELSE LET result == json_loads(text.text) IN
              IF result.ok
              THEN Return(SetEndTime(SetResult(SetStatus(f, "completed"),
                                               result.value), t),
                          result.value)
              ELSE LET error_msg == ParseMsg(result.msg) IN
                   Raise(SetError(SetStatus(f, "failed"), error_msg),
                         "ValueError", error_msg)
    ELSE LET text == BytesDecode(proc.stderr) IN
         IF ~text.ok
         THEN Raise(f, text.exc, text.msg)
         ELSE LET error_msg == ProcessFailedMsg(proc.returncode, text.text) IN
              Raise(SetError(SetStatus(f, "failed"), error_msg),
                    "RuntimeError", error_msg)

\* Lines 261-265: except asyncio.TimeoutError.
ExceptTimeoutError(f, timeout) ==
    LET error_msg == TimeoutMsg(timeout) IN
    Raise(SetError(SetStatus(f, "failed"), error_msg), "TimeoutError", error_msg)

\* Mutant: the catch-all clause re-raises without recording the failure.
ExceptException_unrecorded(f) == f

\* Mutant: the catch-all clause marks the record failed but drops the error.
ExceptException_error_lost(f) == SetStatus(f, "failed")

\* Lines 267-271: except Exception as e ... raise.
ExceptException(f) == SetError(SetStatus(f, "failed"), f.out.msg)

\* Lines 261-271: the except clauses of the try statement. The clause that
\* matches runs; an exception it raises is not handled by its siblings.
Handlers(f, timeout) ==
    IF f.out.kind # "raised" THEN f
    ELSE IF f.out.exc = "asyncio.TimeoutError" THEN ExceptTimeoutError(f, timeout)
    ELSE IF IsException(f.out.exc) THEN ExceptException(f)
    ELSE f

\* Mutant: the finally clause also marks the operation completed.
Finally_marks_completed(f, t) == SetEndTime(SetStatus(f, "completed"), t)

\* Lines 273-274: finally.
Finally(f, t) == SetEndTime(f, t)

\* The try statement of lines 200-274 around a body that ended as frame f.
Try(f, timeout, t) == Finally(Handlers(f, timeout), t)

\* Mutant: the record is never stored.
Insert_dropped(d, k, v) == d

\* self.active_operations[operation_id] = operation
\* Mutant: storing a record makes every id refer to it (a lost update).
Insert_overwrites_all(d, k, v) == [x \in DOMAIN d \cup {k} |-> v]

Insert(d, k, v) == [x \in DOMAIN d \cup {k} |-> IF x = k THEN v ELSE d[x]]

EmptyDict == [x \in {} |-> 0]

\* ---------------------------------------------------------------- tools
\* dict.get(key, default) on a decoded mapping.
DictGet(d, key, default) ==
    IF \E k \in DOMAIN d.keys : d.keys[k] = key
    THEN d.vals[CHOOSE k \in DOMAIN d.keys : d.keys[k] = key]
    ELSE default

\* result.get("Data", {}): an attribute lookup that fails on a value that is
\* not a mapping.
ResultData(result) ==
    IF result.t = "dict"
    THEN [ok |-> TRUE, value |-> DictGet(result, "Data", PyDict(<<>>, <<>>))]
    ELSE [ok |-> FALSE, exc |-> "AttributeError",
          msg |-> FString(<<"'NoneType' object has no attribute 'get'">>)]

\* The {"success": False, "error": ...} mapping of a tool handler.
ErrorEnvelope(msg) == PyDict(<<"success", "error">>, <<PyBool(FALSE), msg>>)

\* What a tool handler does with the outcome out of execute_unity_command:
\* the try body builds the success mapping with the extra entries of the
\* tool, and `except Exception` turns an exception into the error mapping. An
\* exception that is not an Exception leaves the handler.
HandleOutcome(out, extra_keys, extra_vals) ==
    IF out.kind = "raised"
    THEN IF IsException(out.exc) THEN Returned(ErrorEnvelope(out.msg)) ELSE out
    ELSE LET data == ResultData(out.value) IN
         IF data.ok
         THEN Returned(PyDict(<<"success", "data">> \o extra_keys,
                              <<PyBool(TRUE), data.value>> \o extra_vals))
         ELSE Returned(ErrorEnvelope(data.msg))

\* project_scan: the path is validated before the core is called; out is the
\* outcome of the core's call.
project_scan(project_path, out) ==
    IF ~ validate_unity_project_path(project_path)
    THEN Returned(ErrorEnvelope(InvalidPathMsg(project_path)))
    ELSE HandleOutcome(out, <<"project_path", "patterns">>,
                       <<PyStr(project_path), PyStr("**/*.cs, **/*.prefab")>>)

\* scene_validate: the core is called with the path as given.
scene_validate(out) == HandleOutcome(out, <<"scene_paths">>, <<None>>)

\* ---------------------------------------------------------------- Init
\* UnityManager.__init__: empty tracker, no tracked process, bridge script
\* written.
Init ==
    /\ active_operations = EmptyDict
    /\ unity_processes = EmptyDict
    /\ bridge_script = TRUE
    /\ editor_path \in BOOLEAN
    /\ now = 0
    /\ pc = [i \in Calls |-> "idle"]
    /\ args = [i \in Calls |-> NoArgs]
    /\ operation = [i \in Calls |-> None]
    /\ process = [i \in Calls |-> NoProcess]
    /\ exchange = [i \in Calls |-> NoExchange]
    /\ outcome = [i \in Calls |-> NoOutcome]
    /\ log = [i \in Calls |-> <<>>]
    /\ spawns = [i \in Calls |-> 0]
    /\ stdin = [i \in Calls |-> <<>>]
    /\ signals = [i \in Calls |-> <<>>]
    /\ cleanup = NotCleaning

\* The frame of call i when it resumes after an await.
Resume(i) == Frame(operation[i], log[i], outcome[i])

\* Mutant: a call that fails marks every record that exists as failed.
Leave_fails_all(i, f) ==
    /\ operation' = [j \in Calls |->
                       IF j = i THEN f.op
                       ELSE IF f.out.kind = "raised" /\ operation[j] # None
                       THEN [operation[j] EXCEPT !.status = "failed"]
                       ELSE operation[j]]
    /\ log' = [log EXCEPT ![i] = f.log]
    /\ outcome' = [outcome EXCEPT ![i] = f.out]
    /\ pc' = [pc EXCEPT ![i] = "done"]

\* Call i leaves execute_unity_command with frame f.
Leave(i, f) ==
    /\ operation' = [operation EXCEPT ![i] = f.op]
    /\ log' = [log EXCEPT ![i] = f.log]
    /\ outcome' = [outcome EXCEPT ![i] = f.out]
    /\ pc' = [pc EXCEPT ![i] = "done"]

\* ---------------------------------------------------------------- actions
\* Lines 190-224: the record is created and stored, the path validated, the
\* command line built, and create_subprocess_exec awaited.
execute_unity_command(i, action, project_path, parameters, timeout) ==
    LET operation_id == OperationId(action, now)
        f == Frame(UnityOperation(operation_id, action, project_path, now),
                   <<>>, NoOutcome)
    IN  /\ args' = [args EXCEPT ![i] =
                      [action |-> action, project_path |-> project_path,
                       parameters |-> parameters, timeout |-> timeout]]
        /\ active_operations' = Insert(active_operations, operation_id, i)
        /\ IF ~validate_unity_project_path(project_path)
           THEN Leave(i, Try(Raise(f, "ValueError", InvalidPathMsg(project_path)),
                             timeout, now))
           ELSE IF ~editor_path
           THEN Leave(i, Try(Raise(f, "ValueError", UnsupportedPlatformMsg),
                             timeout, now))
           ELSE /\ operation' = [operation EXCEPT ![i] = f.op]
                /\ pc' = [pc EXCEPT ![i] = "spawn"]
                /\ UNCHANGED <<log, outcome>>

\* execute_unity_command is called with the default timeout. Calls are
\* numbered in the order they are made. The server serves tools until it
\* shuts down (MCPServer.run), so no call starts once cleanup has been called.
Call(i) ==
    /\ pc[i] = "idle"
    /\ cleanup.at = "idle"
    /\ \A j \in Calls : j < i => pc[j] # "idle"
    /\ \E a \in Actions, p \in Paths, parameters \in Parameters, t \in Timeouts :
         execute_unity_command(i, a, p, parameters, t)
    /\ UNCHANGED <<unity_processes, bridge_script, editor_path, now, process,
                   exchange, spawns,
                   stdin, signals, cleanup>>

\* Mutant: the request leaves the parameters out.
InputData_action_only(action, parameters) ==
    json_dumps(PyDict(<<"Action">>, <<PyStr(action)>>))

\* Lines 216-219 and 233: the request, json.dumps(command_data).encode(). The
\* text is ASCII, which encodes to the same bytes.
InputData(action, parameters) ==
    LET command_data == PyDict(<<"Action", "Parameters">>,
                               <<PyStr(action), parameters>>)
    IN  json_dumps(command_data)

\* Lines 224-237: the subprocess exists; the request is handed to
\* communicate(), which writes it to stdin and closes stdin, and
\* communicate() is awaited under wait_for.
SpawnOk(i) ==
    /\ pc[i] = "spawn"
    /\ process' = [process EXCEPT ![i] = Running]
    /\ spawns' = [spawns EXCEPT ![i] = @ + 1]
    /\ stdin' = [stdin EXCEPT ![i] =
                   Append(@, InputData(args[i].action, args[i].parameters))]
    /\ pc' = [pc EXCEPT ![i] = "communicate"]
    /\ UNCHANGED <<active_operations, unity_processes, bridge_script, editor_path,
                   now, args, operation, exchange, outcome, log,
                   signals, cleanup>>

\* Line 224: the OS cannot create the subprocess.
SpawnFail(i) ==
    /\ pc[i] = "spawn"
    /\ \E exc \in LaunchErrors :
         Leave(i, Try(Raise(Resume(i), exc, LaunchMsg(exc)), args[i].timeout, now))
    /\ UNCHANGED <<active_operations, unity_processes, bridge_script, editor_path,
                   now, args, process, exchange, spawns,
                   stdin, signals, cleanup>>

\* The editor process exits by itself. A process that hangs never takes this
\* step. The state of a process is read by the exchange of its call and by
\* cleanup, never after its call has ended, so the step is left out then.
ProcExit(i) ==
    /\ process[i].state = "running"
    /\ pc[i] # "done"
    /\ process' = [process EXCEPT ![i] = Exited]
    /\ UNCHANGED <<active_operations, unity_processes, bridge_script, editor_path,
                   now, pc, args, operation, exchange, outcome, log, spawns,
                   stdin, signals, cleanup>>

\* What communicate() can hand back for a process that ended.
Exchanges(proc) ==
    IF proc.state = "signalled"
    THEN {Exchange(-15, "", "")}
    ELSE {Exchange(0, out, "") : out \in Stdouts}
         \cup {Exchange(1, "not json", err) : err \in Stderrs}
         \cup {Exchange(1, "{\"Success\": true, \"Data\": {\"count\": 3}}",
                         "NullReferenceException")}

\* Mutant: the output is read and interpreted without waiting for the
\* subprocess to exit.
CommunicateReturn_early(i) ==
    /\ pc[i] = "communicate"
    /\ args[i].timeout > 0
    /\ \E x \in Exchanges(process[i]) :
         /\ exchange' = [exchange EXCEPT ![i] = x]
         /\ Leave(i, Try(ParseResult(Resume(i), x, now), args[i].timeout, now))
    /\ UNCHANGED <<active_operations, unity_processes, bridge_script, editor_path,
                   now, args, process, spawns,
                   stdin, signals, cleanup>>

\* Mutant: the exchanges are serialised, a call reads its subprocess's output
\* only when no earlier call is still in flight.
CommunicateReturn_serialised(i) ==
    /\ pc[i] = "communicate"
    /\ \A j \in Calls : j < i => pc[j] \in {"idle", "done"}
    /\ process[i].state \in {"exited", "signalled"}
    /\ args[i].timeout > 0
    /\ \E x \in Exchanges(process[i]) :
         /\ exchange' = [exchange EXCEPT ![i] = x]
         /\ Leave(i, Try(ParseResult(Resume(i), x, now), args[i].timeout, now))
    /\ UNCHANGED <<active_operations, unity_processes, bridge_script, editor_path,
                   now, args, process, spawns,
                   stdin, signals, cleanup>>

\* Lines 234-259: communicate() returned within the timeout.
CommunicateReturn(i) ==
    /\ pc[i] = "communicate"
    /\ process[i].state \in {"exited", "signalled"}
    /\ args[i].timeout > 0
    /\ \E x \in Exchanges(process[i]) :
         /\ exchange' = [exchange EXCEPT ![i] = x]
         /\ Leave(i, Try(ParseResult(Resume(i), x, now), args[i].timeout, now))
    /\ UNCHANGED <<active_operations, unity_processes, bridge_script, editor_path,
                   now, args, process, spawns,
                   stdin, signals, cleanup>>

\* Mutant: a call whose exchange timed out launches the editor again.
TimeoutFire_retries(i) ==
    /\ pc[i] = "communicate"
    /\ process[i].state = "running" \/ args[i].timeout <= 0
    /\ pc' = [pc EXCEPT ![i] = "spawn"]
    /\ UNCHANGED <<active_operations, unity_processes, bridge_script, editor_path,
                   now, args, operation, process, exchange, outcome, log, spawns,
                   stdin, signals, cleanup>>

\* Mutant: communicate() is awaited without a timeout.
TimeoutFire_unbounded(i) ==
    /\ FALSE
    /\ UNCHANGED vars

\* Lines 234-237: wait_for gives up: the subprocess did not exit within the
\* timeout (a timeout <= 0 has elapsed at once).
TimeoutFire(i) ==
    /\ pc[i] = "communicate"
    /\ process[i].state = "running" \/ args[i].timeout <= 0
    /\ Leave(i, Try(Raise(Resume(i), "asyncio.TimeoutError", None),
                    args[i].timeout, now))
    /\ UNCHANGED <<active_operations, unity_processes, bridge_script, editor_path,
                   now, args, process, exchange, spawns,
                   stdin, signals, cleanup>>

\* The task is cancelled while it is suspended in one of the two awaits. A
\* cancelled create_subprocess_exec leaves no process behind.
Cancel(i) ==
    /\ pc[i] \in {"spawn", "communicate"}
    /\ Leave(i, Try(Raise(Resume(i), "CancelledError", None), args[i].timeout, now))
    /\ UNCHANGED <<active_operations, unity_processes, bridge_script, editor_path,
                   now, args, process, exchange, spawns,
                   stdin, signals, cleanup>>

\* ---- UnityManager.cleanup
\* Mutant: terminate() is called without asking poll() first.
NeedsTerminate_always(proc) == TRUE

\* Mutant: the process is never killed after the grace period.
StillRunningAfterGrace_never(proc) == FALSE

\* Line 304, `process.poll() is None`: the process is still running.
NeedsTerminate(proc) == proc.state = "running"

\* Line 307, `process.poll() is None` after the sleep: the process outlived
\* the grace period.
StillRunningAfterGrace(proc) == proc.state = "running"

\* Mutant: cleanup leaves the bridge script in place.
RemoveBridgeScript_skipped(exists) == [exists |-> exists, raised |-> FALSE]

\* Mutant: the file is removed without asking whether it exists and outside
\* a try, so a missing file raises.
RemoveBridgeScript_unguarded(exists) == [exists |-> FALSE, raised |-> ~ exists]

\* Lines 316-321: the bridge script is removed if it exists; an error of the
\* removal is logged, not raised.
RemoveBridgeScript(exists) == [exists |-> FALSE, raised |-> FALSE]

\* The handles held in the dict d.
Values(d) == {d[k] : k \in DOMAIN d}

\* Lines 302-311, from the k-th entry of unity_processes on, up to the next
\* await or the end of the loop. st holds the processes, the signals sent
\* and the handles whose termination raised. An entry whose process has
\* exited is passed over; terminate() on a running one either raises, which
\* is logged and the loop goes on, or is followed by `await asyncio.sleep(1)`.
RECURSIVE TerminateLoop(_, _)
TerminateLoop(k, st) ==
    IF k > Len(unity_processes)
    THEN {[st EXCEPT !.at = "end", !.k = k]}
    ELSE LET h == unity_processes[k] IN
         IF ~ NeedsTerminate(st.process[h])
         THEN TerminateLoop(k + 1, st)
         ELSE {[st EXCEPT !.at = "sleep", !.k = k,
                          !.signals[h] = Append(@, SIGTERM)]}
              \cup TerminateLoop(k + 1, [st EXCEPT !.errors = @ \cup {h}])

\* Mutant: at its end cleanup keeps the records of the calls still in flight.
CleanupTo_keeps_in_flight(r, tracked) ==
    /\ process' = r.process
    /\ signals' = r.signals
    /\ IF r.at = "sleep"
       THEN /\ cleanup' = [at |-> "sleep", k |-> r.k, tracked |-> tracked,
                            errors |-> r.errors, raised |-> FALSE]
            /\ UNCHANGED <<unity_processes, active_operations, bridge_script>>
       ELSE LET removed == RemoveBridgeScript(bridge_script)
                kept == {id \in DOMAIN active_operations :
                           pc[active_operations[id]] # "done"}
            IN
            /\ unity_processes' = EmptyDict
            /\ active_operations' = [id \in kept |-> active_operations[id]]
            /\ bridge_script' = removed.exists
            /\ cleanup' = [at |-> "done", k |-> 0, tracked |-> tracked,
                            errors |-> r.errors, raised |-> removed.raised]
    /\ UNCHANGED <<editor_path, now, pc, args, operation, exchange, outcome, log,
                   spawns, stdin>>

\* The cleanup coroutine goes on to configuration r: suspended in the sleep,
\* or through lines 313-321 to its end.
CleanupTo(r, tracked) ==
    /\ process' = r.process
    /\ signals' = r.signals
    /\ IF r.at = "sleep"
       THEN /\ cleanup' = [at |-> "sleep", k |-> r.k, tracked |-> tracked,
                            errors |-> r.errors, raised |-> FALSE]
            /\ UNCHANGED <<unity_processes, active_operations, bridge_script>>
       ELSE LET removed == RemoveBridgeScript(bridge_script) IN
            /\ unity_processes' = EmptyDict
            /\ active_operations' = EmptyDict
            /\ bridge_script' = removed.exists
            /\ cleanup' = [at |-> "done", k |-> 0, tracked |-> tracked,
                            errors |-> r.errors, raised |-> removed.raised]
    /\ UNCHANGED <<editor_path, now, pc, args, operation, exchange, outcome, log,
                   spawns, stdin>>

\* Lines 297-321: UnityManager.cleanup is called, and runs to its first await
\* or, when no tracked process is running, to its end.
Cleanup ==
    /\ cleanup.at # "sleep"
    /\ \E r \in TerminateLoop(1, [at |-> "loop", k |-> 1, process |-> process,
                                    signals |-> signals,
                                    errors |-> cleanup.errors]) :
         CleanupTo(r, cleanup.tracked \cup Values(unity_processes))

\* Lines 307-321: the sleep is over; the process is killed if it is still
\* running, and the loop goes on.
CleanupWake ==
    /\ cleanup.at = "sleep"
    /\ LET h == unity_processes[cleanup.k]
           kill == StillRunningAfterGrace(process[h])
           st == [at |-> "loop", k |-> cleanup.k,
                  process |-> IF kill THEN [process EXCEPT ![h] = Signalled]
                              ELSE process,
                  signals |-> IF kill THEN [signals EXCEPT ![h] = Append(@, SIGKILL)]
                              ELSE signals,
                  errors |-> cleanup.errors]
       IN  \E r \in TerminateLoop(cleanup.k + 1, st) :
               CleanupTo(r, cleanup.tracked)

\* The wall clock advances. Only calls read it, so it is followed while a
\* call can still read it.
Tick ==
    /\ now < MaxClock
    /\ \E i \in Calls : pc[i] # "done"
    /\ now' = now + 1
    /\ UNCHANGED <<active_operations, unity_processes, bridge_script, editor_path,
                   pc, args, operation, process, exchange, outcome, log, spawns,
                   stdin, signals, cleanup>>

\* The steps of the manager and of the editor processes.
ManagerNext ==
    \/ \E i \in Calls : Call(i)
    \/ \E i \in Calls : SpawnOk(i)
    \/ \E i \in Calls : SpawnFail(i)
    \/ \E i \in Calls : ProcExit(i)
    \/ \E i \in Calls : CommunicateReturn(i)
    \/ \E i \in Calls : TimeoutFire(i)
    \/ \E i \in Calls : Cancel(i)
    \/ Cleanup

Next ==
    \/ ManagerNext
    \/ Tick

Spec == Init /\ [][Next]_vars

\* ---- cleanup with tracked handles
\* unity_processes is filled by no method of UnityManager; cleanup is written
\* for handles that its owner has registered there. The contents cleanup can
\* meet: up to MaxCalls entries in insertion order, the same handle possibly
\* under two ids, each over a process that is running or has exited.
TrackedHandles == UNION {[1..n -> Calls] : n \in 0..MaxCalls}

CleanupInit ==
    /\ unity_processes \in TrackedHandles
    /\ process \in [Calls -> {NoProcess, Running, Exited}]
    /\ \A h \in Values(unity_processes) : process[h] # NoProcess
    /\ active_operations = EmptyDict
    /\ bridge_script = TRUE
    /\ editor_path = TRUE
    /\ now = 0
    /\ pc = [i \in Calls |-> "idle"]
    /\ args = [i \in Calls |-> NoArgs]
    /\ operation = [i \in Calls |-> None]
    /\ exchange = [i \in Calls |-> NoExchange]
    /\ outcome = [i \in Calls |-> NoOutcome]
    /\ log = [i \in Calls |-> <<>>]
    /\ spawns = [i \in Calls |-> 0]
    /\ stdin = [i \in Calls |-> <<>>]
    /\ signals = [i \in Calls |-> <<>>]
    /\ cleanup = NotCleaning

\* The steps of cleanup and of the processes it works on.
CleanupNext ==
    \/ Cleanup
    \/ CleanupWake
    \/ \E i \in Calls : ProcExit(i)

CleanupSpec == CleanupInit /\ [][CleanupNext]_vars

\* The event loop runs every task that is ready: a pending launch resolves, and
\* a call suspended in wait_for resumes when communicate() is done or the
\* timeout has elapsed. Nothing obliges the editor process to exit. No guard
\* of a step reads the clock, so progress is checked with the clock stopped.
LiveSpec ==
    /\ Init
    /\ [][ManagerNext]_vars
    /\ \A i \in Calls : WF_vars(SpawnOk(i) \/ SpawnFail(i))
    /\ \A i \in Calls : WF_vars(CommunicateReturn(i) \/ TimeoutFire(i))

\* ---------------------------------------------------------------- tools that set a timeout
\* config.max_operation_time, "Maximum operation timeout in seconds".
max_operation_time == 300

\* The timeout_minutes a client sends: the field is a plain int, with default
\* 30 for build_run and 5 for editor_exec.
TimeoutMinutes == {-1, 0, 5, 30}

\* The parameters build_run passes, scripting_backend and development_build
\* left to their defaults.
BuildParameters ==
    PyDict(<<"target", "scriptingBackend", "developmentBuild", "outputPath">>,
           <<PyStr("android"), None, PyBool(FALSE), PyStr("/out")>>)

\* The parameters editor_exec passes when the client gave none.
EditorParameters ==
    PyDict(<<"methodName", "parameters">>,
           <<PyStr("Tools.Run"), PyDict(<<>>, <<>>)>>)

\* build_run up to its await: an invalid path is answered with the error
\* mapping and the core is not called; otherwise the core is called with
\* timeout_minutes * 60.
build_run(i, project_path, timeout_minutes) ==
    IF ~ validate_unity_project_path(project_path)
    THEN /\ pc' = [pc EXCEPT ![i] = "rejected"]
         /\ UNCHANGED <<args, active_operations, operation, log, outcome>>
    ELSE execute_unity_command(i, "build.run", project_path, BuildParameters,
                               timeout_minutes * 60)

\* editor_exec up to its await: the core is called with the path as given
\* and timeout_minutes * 60.
editor_exec(i, project_path, timeout_minutes) ==
    execute_unity_command(i, "editor.exec", project_path, EditorParameters,
                          timeout_minutes * 60)

\* A client invokes build_run or editor_exec.
ToolCall(i) ==
    /\ pc[i] = "idle"
    /\ cleanup.at = "idle"
    /\ \A j \in Calls : j < i => pc[j] # "idle"
    /\ \E p \in Paths, m \in TimeoutMinutes :
         build_run(i, p, m) \/ editor_exec(i, p, m)
    /\ UNCHANGED <<unity_processes, bridge_script, editor_path, now, process,
                   exchange, spawns,
                   stdin, signals, cleanup>>

\* The invocations of the tools that compute their timeout, and the steps of
\* the calls they make.
ToolNext ==
    \/ \E i \in Calls : ToolCall(i)
    \/ \E i \in Calls : SpawnOk(i)
    \/ \E i \in Calls : SpawnFail(i)
    \/ \E i \in Calls : ProcExit(i)
    \/ \E i \in Calls : CommunicateReturn(i)
    \/ \E i \in Calls : TimeoutFire(i)

ToolSpec == Init /\ [][ToolNext]_vars

\* ================================================================ claims

\* The path fails the validation of the project root, stated on the file
\* system itself.
PathFailsValidation(p) ==
    ~Exists(p) \/ ~IsDir(p) \/ ~HasAssets(p) \/ ~HasProjectSettings(p)

\* The statuses assigned to the record of call i, in order, after the
\* "pending" it is created with.
StatusWrites(i) ==
    SelectSeq(log[i], LAMBDA e : e \in {"status=pending", "status=running",
                                        "status=completed", "status=failed"})

Rank(w) ==
    CASE w = "status=pending" -> 0
      [] w = "status=running" -> 1
      [] OTHER -> 2

\* C1: a call whose project_path fails validation has failed with the
\* invalid-project ValueError, and it has spawned no subprocess.
C1_InvalidPathNeverSpawns ==
    \A i \in Calls :
        (pc[i] # "idle" /\ PathFailsValidation(args[i].project_path)) =>
            /\ pc[i] = "done"
            /\ outcome[i] = Raised("ValueError", InvalidPathMsg(args[i].project_path))
            /\ spawns[i] = 0
            /\ process[i] = NoProcess

\* C1 witness: a call on a directory that lacks ProjectSettings has failed
\* while another call did spawn a subprocess.
C1_Witness ==
    \E i, j \in Calls :
        /\ pc[i] = "done"
        /\ args[i].project_path = "/only_assets"
        /\ outcome[i].kind = "raised"
        /\ spawns[j] = 1

\* C2: when a call has failed with the timeout error, its subprocess is not
\* alive.
C2_TimeoutLeavesNoProcess ==
    \A i \in Calls :
        (pc[i] = "done" /\ outcome[i].kind = "raised"
                        /\ outcome[i].exc = "TimeoutError") =>
            process[i].state # "running"

\* C3: every call that has begun ends, also when its subprocess never exits.
C3_EveryCallEnds ==
    \A i \in Calls : (pc[i] # "idle") ~> (pc[i] = "done")

\* C3 witness: a call has ended with the timeout error while its subprocess is
\* still running.
C3_Witness ==
    \E i \in Calls :
        /\ pc[i] = "done"
        /\ outcome[i].kind = "raised"
        /\ outcome[i].exc = "TimeoutError"
        /\ process[i].state = "running"

\* C4: a step of cleanup leaves no spawned subprocess alive.
C4_CleanupLeavesNoProcess ==
    [][Cleanup => \A i \in Calls : process'[i].state # "running"]_vars

\* C5 as stated: a call whose project_path fails validation leaves the tracker
\* as it was.
C5_NoRecordCreated ==
    [][\A i \in Calls :
          (pc[i] = "idle" /\ pc'[i] # "idle"
              /\ PathFailsValidation(args'[i].project_path)) =>
              active_operations' = active_operations]_vars

\* C5 as amended: a call whose project_path fails validation stores its record
\* in the tracker under its operation id, with status failed and the
\* invalid-path error, and leaves the entries under every other id as they were.
C5_FailedRecordStored ==
    [][\A i \in Calls :
          (pc[i] = "idle" /\ pc'[i] # "idle"
              /\ PathFailsValidation(args'[i].project_path)) =>
              LET id == operation'[i].id IN
              /\ DOMAIN active_operations' = DOMAIN active_operations \cup {id}
              /\ active_operations'[id] = i
              /\ \A k \in DOMAIN active_operations \ {id} :
                    active_operations'[k] = active_operations[k]
              /\ operation'[i].status = "failed"
              /\ operation'[i].error = InvalidPathMsg(args'[i].project_path)]_vars

\* C5 witness: a call on an invalid path has failed and the tracker holds its
\* record.
C5_Witness ==
    \E i \in Calls :
        /\ pc[i] = "done"
        /\ PathFailsValidation(args[i].project_path)
        /\ operation[i].id \in DOMAIN active_operations
        /\ active_operations[operation[i].id] = i
        /\ operation[i].status = "failed"

\* C6: the statuses assigned to a record only advance along
\* pending -> running -> {completed, failed}, a terminal status is never
\* replaced by another one, and the record's status is the last one assigned.
C6_StatusOnlyAdvances ==
    \A i \in Calls :
        pc[i] # "idle" =>
            LET st == <<"status=pending">> \o StatusWrites(i) IN
            /\ \A k \in 1..(Len(st) - 1) :
                  /\ Rank(st[k]) <= Rank(st[k + 1])
                  /\ Rank(st[k]) = 2 => st[k + 1] = st[k]
            /\ "status=" \o operation[i].status = st[Len(st)]

\* C6 witness: one record has reached completed and another has been assigned
\* failed twice.
C6_Witness ==
    \E i, j \in Calls :
        /\ pc[i] = "done" /\ operation[i].status = "completed"
        /\ pc[j] = "done" /\ StatusWrites(j) = <<"status=failed", "status=failed">>

\* C7: while a call is suspended with its subprocess spawned, its record's
\* status is running.
C7_RunningWhileInFlight ==
    \A i \in Calls : pc[i] = "communicate" => operation[i].status = "running"

\* C8: when a call has returned, its record is completed; when it has raised
\* one of the error kinds, its record is failed.
C8_TerminalWhenCallEnds ==
    \A i \in Calls :
        pc[i] = "done" =>
            /\ outcome[i].kind = "returned" => operation[i].status = "completed"
            /\ (outcome[i].kind = "raised" /\ outcome[i].exc # "CancelledError") =>
                  operation[i].status = "failed"

\* C8 witness: one call has returned and another has raised a launch failure.
C8_Witness ==
    \E i, j \in Calls :
        /\ pc[i] = "done" /\ outcome[i].kind = "returned"
        /\ pc[j] = "done" /\ outcome[j].kind = "raised"
        /\ outcome[j].exc \in LaunchErrors

\* C9: a call makes at most one terminal assignment to the status of its
\* record.
C9_FinalizedOnce ==
    \A i \in Calls :
        Cardinality({k \in DOMAIN log[i] :
                        log[i][k] \in {"status=completed", "status=failed"}}) <= 1

\* C10: a record has a result exactly when it is completed and an error
\* exactly when it is failed.
C10_ResultAndErrorMatchStatus ==
    \A i \in Calls :
        pc[i] # "idle" =>
            /\ operation[i].result # None <=> operation[i].status = "completed"
            /\ operation[i].error # None <=> operation[i].status = "failed"

\* C11: end_time is assigned to a record at most once, and it is absent while
\* the call has not finished.
C11_EndTimeWrittenOnce ==
    \A i \in Calls :
        /\ Cardinality({k \in DOMAIN log[i] : log[i][k] = "end_time"}) <= 1
        /\ pc[i] \in {"spawn", "communicate"} => operation[i].end_time = None

\* communicate() returned to call i with exit code 0 and a stdout that decodes.
ExitedZeroDecodable(i) ==
    /\ pc[i] = "done"
    /\ exchange[i] # NoExchange
    /\ exchange[i].returncode = 0
    /\ BytesDecode(exchange[i].stdout).ok
    /\ json_loads(BytesDecode(exchange[i].stdout).text).ok

C13_IdsDistinct ==
    \A i, j \in Calls :
        (i # j /\ pc[i] # "idle" /\ pc[j] # "idle") =>
            operation[i].id # operation[j].id


\* The formatted message msg has x among its pieces.
Carries(msg, x) == \E k \in DOMAIN msg.parts : msg.parts[k] = x

\* communicate() returned to call i with a nonzero exit code.
ExitedNonzero(i) ==
    /\ pc[i] = "done"
    /\ exchange[i] # NoExchange
    /\ exchange[i].returncode # 0

\* C14: when the subprocess exited with a nonzero code, the call has raised
\* RuntimeError (ProcessFailed) with a message that carries the exit code and
\* the captured stderr, whatever stdout held, and the record is failed.
C14_NonzeroExitIsProcessFailed ==
    \A i \in Calls :
        ExitedNonzero(i) =>
            /\ outcome[i].kind = "raised"
            /\ outcome[i].exc = "RuntimeError"
            /\ Carries(outcome[i].msg, ToString(exchange[i].returncode))
            /\ Carries(outcome[i].msg, exchange[i].stderr)
            /\ operation[i].status = "failed"


\* communicate() returned to call i with exit code 0 and a stdout that does
\* not decode.
ExitedZeroUndecodable(i) ==
    /\ pc[i] = "done"
    /\ exchange[i] # NoExchange
    /\ exchange[i].returncode = 0
    /\ ~ ExitedZeroDecodable(i)

\* C15: when the subprocess exited with code 0 and its stdout cannot be
\* decoded, the call has raised an error that carries the raw stdout text, and
\* the record is failed.
C15_UndecodableCarriesRawStdout ==
    \A i \in Calls :
        ExitedZeroUndecodable(i) =>
            /\ outcome[i].kind = "raised"
            /\ Carries(outcome[i].msg, exchange[i].stdout)
            /\ operation[i].status = "failed"


\* v is one of the two envelope shapes of the bridge,
\* {"Success": true, "Data": ...} or {"Success": false, "Error": ...}.
IsEnvelope(v) ==
    /\ v.t = "dict"
    /\ \E k \in DOMAIN v.keys :
         /\ v.keys[k] = "Success"
         /\ v.vals[k].t = "bool"
         /\ \E d \in DOMAIN v.keys :
              v.keys[d] = (IF v.vals[k].b THEN "Data" ELSE "Error")

\* C16: when the subprocess exited with code 0 and its stdout decodes to
\* something that is not an envelope, the call has failed and the record is
\* failed, not completed.
C16_NonEnvelopeIsMalformed ==
    \A i \in Calls :
        (/\ ExitedZeroDecodable(i)
         /\ ~ IsEnvelope(json_loads(BytesDecode(exchange[i].stdout).text).value)) =>
            /\ outcome[i].kind = "raised"
            /\ operation[i].status = "failed"


\* Which of the five failure modes call i ended in, read from what happened
\* to it rather than from the error it raised.
FailureMode(i) ==
    CASE pc[i] # "done" \/ outcome[i].kind # "raised" -> "none"
      [] outcome[i].exc = "CancelledError" -> "none"
      [] ~ validate_unity_project_path(args[i].project_path) -> "ProjectInvalid"
      [] ~ editor_path -> "none"
      [] spawns[i] = 0 -> "LaunchFailed"
      [] exchange[i] = NoExchange -> "Timeout"
      [] exchange[i].returncode # 0 -> "ProcessFailed"
      [] OTHER -> "MalformedResponse"

\* C17: two calls that failed in different failure modes raised errors of
\* different kinds.
C17_KindsDistinguishModes ==
    \A i, j \in Calls :
        (/\ FailureMode(i) # "none"
         /\ FailureMode(j) # "none"
         /\ FailureMode(i) # FailureMode(j)) =>
            outcome[i].exc # outcome[j].exc


\* C18: the step in which create_subprocess_exec raises leaves the record
\* failed with the launch error's text recorded, the call ended by that same
\* error, and no subprocess created for the call.
C18_LaunchFailureRecorded ==
    [][\A i \in Calls :
          SpawnFail(i) =>
              /\ pc'[i] = "done"
              /\ outcome'[i].kind = "raised"
              /\ outcome'[i].exc \in LaunchErrors
              /\ outcome'[i].msg = LaunchMsg(outcome'[i].exc)
              /\ operation'[i].status = "failed"
              /\ operation'[i].error = outcome'[i].msg
              /\ operation'[i].end_time # None
              /\ process'[i] = NoProcess
              /\ spawns'[i] = 0]_vars

\* C18 witness: a call on a valid project ended by the launch error, without
\* a subprocess.
C18_Witness ==
    \E i \in Calls :
        /\ FailureMode(i) = "LaunchFailed"
        /\ outcome[i].exc \in LaunchErrors
        /\ operation[i].status = "failed"
        /\ process[i] = NoProcess


\* r is a tool handler's result that is a well-formed envelope: a returned
\* mapping with a boolean success, and with data when success is true and
\* error when it is false.
WellFormedEnvelope(r) ==
    /\ r.kind = "returned"
    /\ r.value.t = "dict"
    /\ \E k \in DOMAIN r.value.keys :
         /\ r.value.keys[k] = "success"
         /\ r.value.vals[k].t = "bool"
         /\ \E d \in DOMAIN r.value.keys :
              r.value.keys[d] = (IF r.value.vals[k].b THEN "data" ELSE "error")

\* The envelope r reports the outcome out of the core: failure with the
\* error's message for a raised error, success for a returned result.
EnvelopeReports(r, out) ==
    /\ WellFormedEnvelope(r)
    /\ out.kind = "raised" =>
         /\ DictGet(r.value, "success", None) = PyBool(FALSE)
         /\ DictGet(r.value, "error", None) = out.msg
    /\ out.kind = "returned" =>
         DictGet(r.value, "success", None) = PyBool(TRUE)

\* C19: for every call that ended without being cancelled, the tool handlers
\* return a well-formed envelope: success false with the error's message when
\* the core raised, success true with data when the core returned a result.
C19_ToolReturnsEnvelope ==
    \A i \in Calls :
        (/\ pc[i] = "done"
         /\ ~ (outcome[i].kind = "raised" /\ outcome[i].exc = "CancelledError")) =>
            /\ EnvelopeReports(scene_validate(outcome[i]), outcome[i])
            /\ validate_unity_project_path(args[i].project_path) =>
                 EnvelopeReports(project_scan(args[i].project_path, outcome[i]),
                                 outcome[i])


\* Call i is suspended in the exchange with a subprocess that has not exited.
Hung(i) == pc[i] = "communicate" /\ process[i].state = "running"

\* C20: while a call is suspended on a subprocess that has not exited, every
\* other call in flight can take its next step: a pending launch can resolve,
\* a call whose subprocess ended can read its output and finish, and a call
\* whose subprocess is still running can time out.
C20_HungCallDoesNotBlock ==
    \A i, j \in Calls :
        (i # j /\ Hung(i)) =>
            /\ pc[j] = "spawn" => ENABLED SpawnOk(j)
            /\ (pc[j] = "communicate" /\ process[j].state # "running") =>
                 ENABLED CommunicateReturn(j)
            /\ Hung(j) => ENABLED TimeoutFire(j)

\* C20 witness: a later call has returned its result while an earlier call is
\* still suspended on its running subprocess.
C20_Witness ==
    \E i, j \in Calls :
        /\ i < j
        /\ Hung(i)
        /\ pc[j] = "done"
        /\ outcome[j].kind = "returned"
        /\ operation[j].status = "completed"


\* C21: a call creates at most one subprocess: none when the path fails
\* validation or the launch fails, and exactly one once the launch has
\* succeeded, whatever way the call then ends.
C21_AtMostOneSpawn ==
    \A i \in Calls :
        /\ spawns[i] <= 1
        /\ (pc[i] = "communicate" \/ exchange[i] # NoExchange) => spawns[i] = 1
        /\ process[i] # NoProcess <=> spawns[i] = 1
        /\ (pc[i] # "idle" /\ PathFailsValidation(args[i].project_path)) =>
             spawns[i] = 0
        /\ (pc[i] = "done" /\ outcome[i].kind = "raised"
            /\ outcome[i].exc \in LaunchErrors) => spawns[i] = 0

\* C21 witness: a call that timed out and a call whose subprocess exited with
\* a nonzero code have both ended with exactly one subprocess created.
C21_Witness ==
    \E i, j \in Calls :
        /\ FailureMode(i) = "Timeout"
        /\ FailureMode(j) = "ProcessFailed"
        /\ spawns[i] = 1
        /\ spawns[j] = 1


C24_TerminationIdempotent ==
    [][\A h \in Calls :
          /\ process[h].state # "running" =>
               /\ signals'[h] = signals[h]
               /\ h \in cleanup'.errors => h \in cleanup.errors
          /\ Cardinality({k \in DOMAIN signals'[h] : signals'[h][k] = SIGTERM}) <= 1
          /\ Cardinality({k \in DOMAIN signals'[h] : signals'[h][k] = SIGKILL}) <= 1]_vars

\* C24 witness: cleanup has ended after visiting a handle whose process had
\* exited, which got no signal, and a handle it had to kill.
C24_Witness ==
    /\ cleanup.at = "done"
    /\ \E h \in cleanup.tracked : process[h] = Exited /\ signals[h] = <<>>
    /\ \E h \in cleanup.tracked : signals[h] = <<SIGTERM, SIGKILL>>


\* The bytes of the request for project.scan with the tool's default
\* parameters.
ScanRequest ==
    "{\"Action\": \"project.scan\", \"Parameters\": {\"patterns\": "
    \o "[\"**/*.cs\", \"**/*.prefab\"], \"includeAssets\": true, \"maxDepth\": 10}}"

\* C25: a call hands nothing to a subprocess's stdin before it has created
\* one, and from then on exactly one request, the JSON object with the call's
\* action under "Action" and its parameters under "Parameters".
C25_OneRequestWritten ==
    \A i \in Calls :
        /\ spawns[i] = 0 => stdin[i] = <<>>
        /\ (/\ spawns[i] >= 1
            /\ args[i].action = "project.scan"
            /\ args[i].parameters \in Parameters) => stdin[i] = <<ScanRequest>>

\* C25 witness: a call has completed its exchange having written the one
\* request.
C25_Witness ==
    \E i \in Calls :
        /\ pc[i] = "done"
        /\ exchange[i] # NoExchange
        /\ stdin[i] = <<ScanRequest>>


\* Call i has started, and no other started call has its operation id.
HasOwnId(i) ==
    /\ pc[i] # "idle"
    /\ \A j \in Calls : (j # i /\ pc[j] # "idle") => operation[j].id # operation[i].id

\* C26: until cleanup, for every interleaving, a call whose id no other call
\* has is found in active_operations under its id with its own record, and
\* once it has ended that record carries its own final status and its own
\* result or error; with all ids distinct there are as many records as calls.
C26_TrackerNotCorrupted ==
    cleanup.at = "idle" =>
        /\ \A i \in Calls :
             HasOwnId(i) =>
                 /\ operation[i].id \in DOMAIN active_operations
                 /\ active_operations[operation[i].id] = i
                 /\ (pc[i] = "done" /\ outcome[i].kind = "returned") =>
                      /\ operation[i].status = "completed"
                      /\ operation[i].result = outcome[i].value
                 /\ (pc[i] = "done" /\ outcome[i].kind = "raised"
                     /\ IsException(outcome[i].exc)) =>
                      /\ operation[i].status = "failed"
                      /\ operation[i].error = outcome[i].msg
        /\ (\A i \in Calls : pc[i] # "idle" => HasOwnId(i)) =>
             Cardinality(DOMAIN active_operations)
               = Cardinality({i \in Calls : pc[i] # "idle"})

\* C26 witness: two calls that were in flight together have ended, one with a
\* result and one with an error, under different ids, each in the tracker.
C26_Witness ==
    \E i, j \in Calls :
        /\ i # j
        /\ pc[i] = "done" /\ pc[j] = "done"
        /\ spawns[i] = 1 /\ spawns[j] = 1
        /\ operation[i].id # operation[j].id
        /\ operation[j].start_time.timestamp <= operation[i].end_time.timestamp
        /\ operation[i].start_time.timestamp <= operation[j].end_time.timestamp
        /\ outcome[i].kind = "returned"
        /\ outcome[j].kind = "raised"
        /\ active_operations[operation[i].id] = i
        /\ active_operations[operation[j].id] = j


\* C27: a step that is not a step of cleanup removes no record from
\* active_operations and replaces none, so every invocation adds one record.
C27_RecordsRetained ==
    [][(~ Cleanup) =>
          /\ \A id \in DOMAIN active_operations :
               /\ id \in DOMAIN active_operations'
               /\ active_operations'[id] = active_operations[id]
          /\ \A i \in Calls :
               Call(i) => Cardinality(DOMAIN active_operations')
                            = Cardinality(DOMAIN active_operations) + 1]_vars


\* C28: whenever a call holds an exit code and output, or its record holds a
\* result, the call had handed over its request and its subprocess has
\* exited: nothing of the response is interpreted while the subprocess runs.
C28_InterpretedAfterExit ==
    \A i \in Calls :
        (pc[i] # "idle" /\ (exchange[i] # NoExchange \/ operation[i].result # None
                            \/ operation[i].status = "completed")) =>
            /\ exchange[i] # NoExchange
            /\ process[i].state \in {"exited", "signalled"}
            /\ Len(stdin[i]) = 1

\* C28 witness: a call has interpreted the response of its exited subprocess.
C28_Witness ==
    \E i \in Calls :
        /\ pc[i] = "done"
        /\ exchange[i] # NoExchange
        /\ process[i] = Exited
        /\ Len(stdin[i]) = 1
        /\ operation[i].status = "completed"


C30_FailureScoped ==
    [][\A i \in Calls :
          (pc[i] # "done" /\ pc'[i] = "done" /\ outcome'[i].kind = "raised") =>
              /\ \A j \in Calls \ {i} :
                   /\ pc'[j] = pc[j]
                   /\ operation'[j] = operation[j]
                   /\ process'[j] = process[j]
                   /\ outcome'[j] = outcome[j]
              /\ \A id \in DOMAIN active_operations :
                   id # operation'[i].id =>
                       /\ id \in DOMAIN active_operations'
                       /\ active_operations'[id] = active_operations[id]]_vars

\* C30 witness: a call has failed while another call, started earlier, is
\* still in its exchange with its subprocess running and its record pending.
C30_Witness ==
    \E i, j \in Calls :
        /\ j < i
        /\ pc[i] = "done"
        /\ outcome[i].kind = "raised"
        /\ spawns[i] = 1
        /\ Hung(j)
        /\ operation[j].status = "pending"
        /\ operation[j].id \in DOMAIN active_operations


\* The tool handler's result r is an envelope that reports success.
EnvelopeSuccess(r) ==
    /\ r.kind = "returned"
    /\ r.value.t = "dict"
    /\ DictGet(r.value, "success", None) = PyBool(TRUE)

\* The editor of call i exited with code 0 and answered {"Success": false, ...}.
EditorReportedFailure(i) ==
    /\ ExitedZeroDecodable(i)
    /\ LET response == json_loads(BytesDecode(exchange[i].stdout).text).value IN
       /\ response.t = "dict"
       /\ DictGet(response, "Success", None) = PyBool(FALSE)

\* C33: when the subprocess exited with code 0 and its stdout is
\* {"Success": false, "Error": msg}, the envelope the tool handler returns to
\* the client does not report success.
C33_EditorFailureReported ==
    \A i \in Calls :
        EditorReportedFailure(i) =>
            /\ ~ EnvelopeSuccess(scene_validate(outcome[i]))
            /\ ~ EnvelopeSuccess(project_scan(args[i].project_path, outcome[i]))


\* The core's call i has ended with a record and handed an outcome to the tool
\* handler's try statement (a cancellation leaves the handler).
HandlerAnswered(i) ==
    /\ pc[i] = "done"
    /\ operation[i] # None
    /\ ~ (outcome[i].kind = "raised" /\ outcome[i].exc = "CancelledError")

\* C34: for every tool invocation whose core call created a record, the
\* envelope returned to the client reports success if and only if the record
\* ended completed.
C34_TrackerAndClientAgree ==
    \A i \in Calls :
        HandlerAnswered(i) =>
            /\ EnvelopeSuccess(scene_validate(outcome[i]))
                 <=> operation[i].status = "completed"
            /\ validate_unity_project_path(args[i].project_path) =>
                 (EnvelopeSuccess(project_scan(args[i].project_path, outcome[i]))
                    <=> operation[i].status = "completed")


\* C35: in every reachable state, a record whose end_time is set has status
\* completed or failed, also when the call was cancelled in an await.
C35_EndTimeOnlyWhenTerminal ==
    \A i \in Calls :
        (operation[i] # None /\ operation[i].end_time # None) =>
            operation[i].status \in {"completed", "failed"}


\* Call i ends in this step.
Completes(i) == pc[i] # "done" /\ pc'[i] = "done"

\* C36: once cleanup has run to its end, every later step leaves the tracker
\* empty, in particular the completion of a call that was in flight when
\* cleanup ran; and that call still hands its result or its error to its
\* caller: the decoded response when its subprocess exited with code 0 and a
\* stdout that decodes.
C36_CleanupAndInFlightCalls ==
    [][cleanup.at = "done" =>
          /\ active_operations' = EmptyDict
          /\ \A i \in Calls :
               Completes(i) =>
                 /\ outcome'[i].kind \in {"returned", "raised"}
                 /\ operation'[i].end_time # None
                 /\ ExitedZeroDecodable(i)' =>
                      outcome'[i] = Returned(
                          json_loads(BytesDecode(exchange'[i].stdout).text).value)]_vars

\* C36 witness: cleanup has run to its end while a call is in flight; the
\* tracker is empty although the call's record exists, and the call's
\* subprocess has exited, so its completion is the next step of the call.
C36_Witness ==
    \E i \in Calls :
        /\ cleanup.at = "done"
        /\ pc[i] = "communicate"
        /\ process[i].state = "exited"
        /\ operation[i] # None
        /\ active_operations = EmptyDict
        /\ ENABLED CommunicateReturn(i)


\* C31: every call the tools make to the core carries a timeout of at most
\* max_operation_time seconds.
C31_TimeoutWithinMaximum ==
    \A i \in Calls :
        pc[i] \in {"spawn", "communicate", "done"} =>
            args[i].timeout <= max_operation_time


\* C32: no subprocess is spawned for a call whose timeout is not positive,
\* whatever timeout_minutes the client sent.
C32_SpawnedTimeoutPositive ==
    \A i \in Calls :
        spawns[i] > 0 => args[i].timeout > 0

====
